---- MODULE Spec2Model ----
(***************************************************************************)
(* Model of utils/vector_store.py: connect_to_vectorstore,                 *)
(* load_data_into_vectorstore and load_chain, run against a vector         *)
(* database, an embedding provider and a chat-model provider whose         *)
(* successes and failures are chosen by the environment.                   *)
(*                                                                         *)
(* A Python string is a sequence of one-character strings, so that         *)
(* str.strip() and str.lower() are computed and not assumed.               *)
(***************************************************************************)
EXTENDS Integers, Sequences, FiniteSets, TLC

VARIABLES
    db,        \* the vector database: collection name -> Absent or a collection
    nextId,    \* number of identifiers uuid4() has handed out so far
    op,        \* the last operation called, with its arguments
    calls,     \* the external calls the last operation made, in order, with outcomes
    status,    \* the messages the last operation emitted to the status channel
    raised,    \* the exception that reached the caller of the last operation, or NoExc
    result,    \* the value the last operation returned, or NoResult
    built_points,  \* the list "points" the last load_data_into_vectorstore built
    uploaded   \* history: collection name -> identifiers ever upserted into it

vars == <<db, nextId, op, calls, status, raised, result, built_points, uploaded>>

-----------------------------------------------------------------------------
(* Bounds *)

\* longest list of texts enumerated exhaustively
MaxLen == 2
\* the long lists of texts have k*batch_size-1, k*batch_size, k*batch_size+1
\* strings for k up to MaxBatches
MaxBatches == 2
\* load_data_into_vectorstore is only started while uuid4() has handed out at
\* most this many identifiers
MaxPriorIds == 1

-----------------------------------------------------------------------------
(* Program constants *)

batch_size == 100
VectorSize == 1536
Temperature == 0
ClientTimeout == 60

Distance_COSINE == "Cosine"

-----------------------------------------------------------------------------
(* Python strings *)

Min(a, b) == IF a <= b THEN a ELSE b

Range(s) == {s[i] : i \in 1..Len(s)}

Whitespace == {" ", "\t", "\n"}

\* str.strip(): drop leading and trailing whitespace
RECURSIVE LStrip(_)
LStrip(s) ==
    IF s # <<>> /\ Head(s) \in Whitespace THEN LStrip(Tail(s)) ELSE s

RECURSIVE RStrip(_)
RStrip(s) ==
    IF s # <<>> /\ s[Len(s)] \in Whitespace
    THEN RStrip(SubSeq(s, 1, Len(s) - 1))
    ELSE s

Strip(s) == RStrip(LStrip(s))

UpperLetters ==
    <<"A","B","C","D","E","F","G","H","I","J","K","L","M",
      "N","O","P","Q","R","S","T","U","V","W","X","Y","Z">>

LowerLetters ==
    <<"a","b","c","d","e","f","g","h","i","j","k","l","m",
      "n","o","p","q","r","s","t","u","v","w","x","y","z">>

LowerChar(c) ==
    IF \E i \in 1..Len(UpperLetters) : UpperLetters[i] = c
    THEN LowerLetters[CHOOSE i \in 1..Len(UpperLetters) : UpperLetters[i] = c]
    ELSE c

\* str.lower()
Lower(s) == [i \in 1..Len(s) |-> LowerChar(s[i])]

\* truth value of a Python str: non-empty
Truthy(s) == s # <<>>

-----------------------------------------------------------------------------
(* Values *)

Absent == [exists |-> FALSE]
NoExc == "NoExc"
NoResult == [kind |-> "none"]
NoArg == "NoArg"

\* exceptions raised by the external libraries
OpenAIEmbeddingsError == "OpenAIEmbeddingsError"
QdrantClientError == "QdrantClientError"
DeleteNotFound == "DeleteNotFound"
DeleteError == "DeleteError"
CreateError == "CreateError"
CollectionExists == "CollectionExists"
EmbedError == "EmbedError"
UpsertError == "UpsertError"
UpsertNotFound == "UpsertNotFound"
QdrantStoreError == "QdrantStoreError"
ChatModelError == "ChatModelError"
ChainError == "ChainError"

Ok == "ok"

NoRet == [none |-> TRUE]

\* an external call: the function, its argument, how it ended (Ok or the
\* exception it raised) and what it returned
CallRet(fn, arg, outcome, ret) ==
    [fn |-> fn, arg |-> arg, outcome |-> outcome, ret |-> ret]

Call(fn, arg, outcome) == CallRet(fn, arg, outcome, NoRet)

Msg(kind, text) == [kind |-> kind, text |-> text]

-----------------------------------------------------------------------------
(* The vector database service, as the Qdrant client exposes it *)

\* the default of the parameter collection_name
DefaultCollection == "documents_collection"

CollectionNames == {DefaultCollection, "other_collection"}

\* client.delete_collection(name)
delete_collection(d, name, fault) ==
    IF fault # Ok THEN [db |-> d, outcome |-> DeleteError]
    ELSE IF ~d[name].exists THEN [db |-> d, outcome |-> DeleteNotFound]
    ELSE [db |-> [d EXCEPT ![name] = Absent], outcome |-> Ok]

\* client.create_collection(name, vectors_config)
create_collection(d, name, vectors_config, fault) ==
    IF fault # Ok THEN [db |-> d, outcome |-> CreateError]
    ELSE IF d[name].exists THEN [db |-> d, outcome |-> CollectionExists]
    ELSE [db |-> [d EXCEPT ![name] = [exists |-> TRUE, config |-> vectors_config, points |-> {}]],
          outcome |-> Ok]

\* client.upsert(name, points): a point replaces the stored point of the same id
upsert(d, name, batch, fault) ==
    IF fault # Ok THEN [db |-> d, outcome |-> UpsertError]
    ELSE IF ~d[name].exists THEN [db |-> d, outcome |-> UpsertNotFound]
    ELSE LET ids == {batch[i].id : i \in 1..Len(batch)}
             kept == {p \in d[name].points : p.id \notin ids}
         IN [db |-> [d EXCEPT ![name].points = kept \cup Range(batch)],
             outcome |-> Ok]

-----------------------------------------------------------------------------
(* connect_to_vectorstore *)

http == <<"h","t","t","p">>

\* str.startswith
StartsWith(s, prefix) ==
    Len(s) >= Len(prefix) /\ SubSeq(s, 1, Len(prefix)) = prefix

\* ConnectExcept without the st.error call
ConnectExcept_Silent(d, cs, msgs, e) ==
    [db |-> d, calls |-> cs, status |-> msgs, raised |-> e, result |-> NoResult]

\* what the outer handler of connect_to_vectorstore does with exception e
ConnectExcept(d, cs, msgs, e) ==
    [db |-> d, calls |-> cs,
     status |-> Append(msgs, Msg("error", <<"Connection error: ", e>>)),
     raised |-> e, result |-> NoResult]

\* the client constructor's arguments, by the form of the host
ClientArgs(host, port, api_key) ==
    IF StartsWith(host, http)
    THEN [url |-> host, api_key |-> api_key, timeout |-> ClientTimeout,
          prefer_grpc |-> FALSE]
    ELSE [host |-> host, port |-> port]

\* the inner try around delete_collection: TRUE when the exception is swallowed
DeleteSuppressed(e) == TRUE

\* connect_to_vectorstore that keeps a collection it finds and creates only a
\* missing one
connect_keep_existing(d, host, port, api_key, collection_name, openai_api_key, env) ==
    LET m0 == <<Msg("write", <<"Connecting to Qdrant at: ", host>>)>>
        c1 == <<Call("OpenAIEmbeddings", openai_api_key, env.embeddings)>>
        client == ClientArgs(host, port, api_key)
        c2 == Append(c1, Call("QdrantClient", client, env.client))
        config == [size |-> VectorSize, distance |-> Distance_COSINE]
        cre == create_collection(d, collection_name, config, env.create)
        c3 == Append(c2, Call("create_collection", collection_name, cre.outcome))
    IN
    IF env.embeddings # Ok THEN ConnectExcept(d, c1, m0, env.embeddings)
    ELSE IF env.client # Ok THEN ConnectExcept(d, c2, m0, env.client)
    ELSE IF cre.outcome \notin {Ok, CollectionExists}
    THEN ConnectExcept(cre.db, c3, m0, cre.outcome)
    ELSE [db |-> cre.db, calls |-> c3, status |-> m0, raised |-> NoExc,
          result |-> [kind |-> "pair", client |-> client,
                      embeddings |-> [openai_api_key |-> openai_api_key]]]

\* env: the outcome the environment gives each external call, if it is reached
connect_to_vectorstore(d, host, port, api_key, collection_name, openai_api_key, env) ==
    LET m0 == <<Msg("write", <<"Connecting to Qdrant at: ", host>>)>>
        c1 == <<Call("OpenAIEmbeddings", openai_api_key, env.embeddings)>>
    IN
    IF env.embeddings # Ok THEN ConnectExcept(d, c1, m0, env.embeddings)
    ELSE
    LET client == ClientArgs(host, port, api_key)
        c2 == Append(c1, Call("QdrantClient", client, env.client))
    IN
    IF env.client # Ok THEN ConnectExcept(d, c2, m0, env.client)
    ELSE
    LET del == delete_collection(d, collection_name, env.delete)
        c3 == Append(c2, Call("delete_collection", collection_name, del.outcome))
    IN
    IF del.outcome # Ok /\ ~DeleteSuppressed(del.outcome)
    THEN ConnectExcept(del.db, c3, m0, del.outcome)
    ELSE
    LET config == [size |-> VectorSize, distance |-> Distance_COSINE]
        cre == create_collection(del.db, collection_name, config, env.create)
        c4 == Append(c3, Call("create_collection", collection_name, cre.outcome))
    IN
    IF cre.outcome # Ok THEN ConnectExcept(cre.db, c4, m0, cre.outcome)
    ELSE [db |-> cre.db, calls |-> c4, status |-> m0, raised |-> NoExc,
          result |-> [kind |-> "pair", client |-> client,
                      embeddings |-> [openai_api_key |-> openai_api_key]]]

Hosts == { <<"h","t","t","p",":","/","/","q">>, <<"q">> }

\* the outcomes of the external calls of one connect_to_vectorstore call: a
\* call after a failed constructor is never made, so its outcome is left Ok
ConnectEnvs ==
    {[embeddings |-> OpenAIEmbeddingsError, client |-> Ok, delete |-> Ok, create |-> Ok],
     [embeddings |-> Ok, client |-> QdrantClientError, delete |-> Ok, create |-> Ok]}
    \cup [embeddings : {Ok}, client : {Ok}, delete : {Ok, DeleteError},
          create : {Ok, CreateError}]

Connect ==
    \E host \in Hosts, name \in CollectionNames, env \in ConnectEnvs :
        \E r \in {connect_to_vectorstore(db, host, 6333, "qkey", name, "okey", env)} :
           /\ db' = r.db
           /\ calls' = r.calls
           /\ status' = r.status
           /\ raised' = r.raised
           /\ result' = r.result
           /\ op' = [name |-> "connect_to_vectorstore", collection_name |-> name,
                     arg |-> [host |-> host]]
           /\ built_points' = <<>>
           /\ UNCHANGED <<nextId, uploaded>>

-----------------------------------------------------------------------------
(* load_data_into_vectorstore *)

\* embeddings.embed_documents(texts): the provider's answer. A vector is
\* named by the position it has in the answer; the provider answers with
\* Len(texts) + delta vectors (delta = 0 for a provider that keeps its contract)
embed_documents(texts, fault, delta) ==
    IF fault # Ok THEN [outcome |-> EmbedError, vectors |-> <<>>]
    ELSE [outcome |-> Ok,
          vectors |-> [j \in 1..(IF Len(texts) + delta < 0 THEN 0
                                 ELSE Len(texts) + delta) |-> j]]

\* zip(texts, vectors)
Zip(texts, vectors) ==
    [i \in 1..Min(Len(texts), Len(vectors)) |-> <<texts[i], vectors[i]>>]

\* uuid4() after n identifiers were handed out: one that none of them equals
uuid4(n) == n + 1

PointStruct(id, vector, payload) ==
    [id |-> id, vector |-> vector, payload |-> payload]

\* KeepText without the strip(): a whitespace-only string passes
KeepText_NoStrip(text) == Truthy(text)

\* the filter "if text and text.strip()"
KeepText(text) == Truthy(text) /\ Truthy(Strip(text))

\* PointsLoop with the vectors zipped after the filter: the k-th kept text gets
\* the k-th vector
PointsLoop_ZipAfterFilter(pairs, n) ==
    LET kept == SelectSeq(pairs, LAMBDA pr : KeepText(pr[1]))
    IN [points |-> [k \in 1..Len(kept) |->
                       PointStruct(uuid4(n + k - 1), pairs[k][2],
                                   [text |-> kept[k][1]])],
        nextId |-> n + Len(kept)]

\* the loop over enumerate(zip(texts, vectors)): the pairs whose text passes the
\* filter, in order, each made a point under the identifier of its own uuid4()
\* call; n identifiers were handed out before the loop
PointsLoop(pairs, n) ==
    LET kept == SelectSeq(pairs, LAMBDA pr : KeepText(pr[1]))
    IN [points |-> [k \in 1..Len(kept) |->
                       PointStruct(uuid4(n + k - 1), kept[k][2],
                                   [text |-> kept[k][1]])],
        nextId |-> n + Len(kept)]

\* the Python slice points[i:j], i and j counted from 0
Slice(points, i, j) == SubSeq(points, i + 1, Min(j, Len(points)))

\* Batch with a slice one record too long
Batch_OneTooMany(points, i) == Slice(points, i, i + batch_size + 1)

\* points[i:i + batch_size]
Batch(points, i) == Slice(points, i, i + batch_size)

\* UploadLoop with a compensating delete: a failed upsert removes the points of
\* the batches upserted before it
RECURSIVE UploadLoop_Rollback(_, _, _, _, _, _)
UploadLoop_Rollback(d, collection_name, points, i, cs, failAt) ==
    IF i >= Len(points) THEN [db |-> d, calls |-> cs, outcome |-> Ok]
    ELSE LET batch == Batch(points, i)
             fault == IF failAt = (i \div batch_size) + 1 THEN UpsertError ELSE Ok
             u == upsert(d, collection_name, batch, fault)
             cs2 == Append(cs, Call("upsert",
                                    [collection_name |-> collection_name,
                                     points |-> batch],
                                    u.outcome))
         IN IF u.outcome # Ok
            THEN [db |-> IF d[collection_name].exists
                         THEN [d EXCEPT ![collection_name].points = @ \ Range(points)]
                         ELSE d,
                  calls |-> cs2, outcome |-> u.outcome]
            ELSE UploadLoop_Rollback(u.db, collection_name, points, i + batch_size,
                                     cs2, failAt)

\* the loop "for i in range(0, len(points), batch_size)", from offset i on;
\* the environment fails the failAt-th upsert call (none when failAt = 0)
RECURSIVE UploadLoop(_, _, _, _, _, _)
UploadLoop(d, collection_name, points, i, cs, failAt) ==
    IF i >= Len(points) THEN [db |-> d, calls |-> cs, outcome |-> Ok]
    ELSE LET batch == Batch(points, i)
             fault == IF failAt = (i \div batch_size) + 1 THEN UpsertError ELSE Ok
             u == upsert(d, collection_name, batch, fault)
             cs2 == Append(cs, Call("upsert",
                                    [collection_name |-> collection_name,
                                     points |-> batch],
                                    u.outcome))
         IN IF u.outcome # Ok
            THEN [db |-> u.db, calls |-> cs2, outcome |-> u.outcome]
            ELSE UploadLoop(u.db, collection_name, points, i + batch_size, cs2, failAt)

\* LoadExcept raising an exception of its own in place of e
LoadExcept_Translate(d, n, pts, cs, msgs, e) ==
    [db |-> d, nextId |-> n, points |-> pts, calls |-> cs,
     status |-> Append(msgs, Msg("error", <<"Data loading error: ", e>>)),
     raised |-> "RuntimeError", result |-> NoResult]

\* what the handler of load_data_into_vectorstore does with exception e
LoadExcept(d, n, pts, cs, msgs, e) ==
    [db |-> d, nextId |-> n, points |-> pts, calls |-> cs,
     status |-> Append(msgs, Msg("error", <<"Data loading error: ", e>>)),
     raised |-> e, result |-> NoResult]

\* EmbedInput with the blank strings filtered out first
EmbedInput_NonBlankOnly(texts) == SelectSeq(texts, KeepText)

\* the list handed to embeddings.embed_documents
EmbedInput(texts) == texts

load_data_into_vectorstore(d, n, texts, api_key, collection_name, env) ==
    LET c1 == <<Call("OpenAIEmbeddings", api_key, env.embeddings)>>
    IN
    IF env.embeddings # Ok THEN LoadExcept(d, n, <<>>, c1, <<>>, env.embeddings)
    ELSE
    LET emb == embed_documents(EmbedInput(texts), env.embed, env.delta)
        c2 == Append(c1, CallRet("embed_documents", EmbedInput(texts), emb.outcome,
                                 emb.vectors))
    IN
    IF emb.outcome # Ok THEN LoadExcept(d, n, <<>>, c2, <<>>, emb.outcome)
    ELSE
    LET built == PointsLoop(Zip(texts, emb.vectors), n)
        pts == built.points
        m1 == <<Msg("write", <<"Debug - Uploading points", Len(pts)>>)>>
        up == UploadLoop(d, collection_name, pts, 0, c2, env.failAt)
    IN
    IF up.outcome # Ok THEN LoadExcept(up.db, built.nextId, pts, up.calls, m1, up.outcome)
    ELSE [db |-> up.db, nextId |-> built.nextId, points |-> pts, calls |-> up.calls,
          status |-> Append(m1, Msg("success",
                                    <<"Successfully loaded points", Len(pts)>>)),
          raised |-> NoExc, result |-> NoResult]

TextStrs == { <<>>, <<" ">>, <<"\t", "\n">>, <<"a">>, <<" ", "b", " ">> }

ShortTexts == UNION {[1..n -> TextStrs] : n \in 0..MaxLen}

\* a list of n strings, every period-th of them blank (none when period = 0)
LongText(n, period) ==
    [i \in 1..n |->
        IF period > 0 /\ i % period = 0 THEN <<" ">>
        ELSE IF i % 2 = 0 THEN <<"a">> ELSE <<" ", "b", " ">>]

LongLens == {k * batch_size + dl : k \in 1..MaxBatches, dl \in {-1, 0, 1}}

LongTexts == {LongText(n, period) : n \in LongLens, period \in {0, 3}}

\* the outcomes of the external calls of one load_data_into_vectorstore call
LoadEnvs ==
    {[embeddings |-> OpenAIEmbeddingsError, embed |-> Ok, delta |-> 0, failAt |-> 0],
     [embeddings |-> Ok, embed |-> EmbedError, delta |-> 0, failAt |-> 0]}
    \cup [embeddings : {Ok}, embed : {Ok}, delta : {-1, 0, 1},
          failAt : 0..(MaxBatches + 1)]

\* the outcomes tried where calls of the three operations interleave
FewLoadEnvs == {env \in LoadEnvs : env.delta = 0 /\ env.failAt <= 1}

FewTexts == UNION {[1..n -> {<<" ">>, <<"a">>}] : n \in 0..MaxLen}

\* the identifiers of the points of the upsert calls that succeeded
StoredIds(cs) ==
    UNION {{cs[i].arg.points[k].id : k \in 1..Len(cs[i].arg.points)} :
              i \in {j \in 1..Len(cs) : cs[j].fn = "upsert" /\ cs[j].outcome = Ok}}

\* one call of load_data_into_vectorstore with a list of texts of the given set
LoadCall(textsSet, names, envs) ==
    \E texts \in textsSet, name \in names, env \in envs :
        \E r \in {load_data_into_vectorstore(db, nextId, texts, "okey", name, env)} :
           /\ db' = r.db
           /\ nextId' = r.nextId
           /\ calls' = r.calls
           /\ status' = r.status
           /\ raised' = r.raised
           /\ result' = r.result
           /\ built_points' = r.points
           /\ uploaded' = [uploaded EXCEPT ![name] = @ \cup StoredIds(r.calls)]
           /\ op' = [name |-> "load_data_into_vectorstore",
                     collection_name |-> name, arg |-> [texts |-> texts]]

Load ==
    /\ nextId <= MaxPriorIds
    /\ LoadCall(FewTexts, {DefaultCollection}, FewLoadEnvs)

\* a first call, with a short or a long list
LoadFirst ==
    /\ op.name = "none"
    /\ LoadCall(ShortTexts \cup LongTexts, CollectionNames, LoadEnvs)

-----------------------------------------------------------------------------
(* load_chain *)

anthropic == <<"a","n","t","h","r","o","p","i","c">>
openai == <<"o","p","e","n","a","i">>

\* an optional argument: not given, or given with a value
NotGiven == [given |-> FALSE]
Given(v) == [given |-> TRUE, value |-> v]

\* the value of a parameter that has a default
Param(a, default) == IF a.given THEN a.value ELSE default

\* SelectLlm comparing model_type without lower()
SelectLlm_CaseSensitive(model_type, model_name, api_key) ==
    IF model_type = anthropic
    THEN [class |-> "ChatAnthropic", model |-> model_name, api_key |-> api_key,
          temperature |-> Temperature]
    ELSE [class |-> "ChatOpenAI", model |-> model_name, api_key |-> api_key,
          temperature |-> Temperature]

\* the branch on model_type: the chat client built for it
SelectLlm(model_type, model_name, api_key) ==
    IF Lower(model_type) = anthropic
    THEN [class |-> "ChatAnthropic", model |-> model_name, api_key |-> api_key,
          temperature |-> Temperature]
    ELSE [class |-> "ChatOpenAI", model |-> model_name, api_key |-> api_key,
          temperature |-> Temperature]

\* load_chain has no handler: exception e reaches the caller as it is
ChainRaise(d, cs, e) ==
    [db |-> d, calls |-> cs, status |-> <<>>, raised |-> e, result |-> NoResult]

load_chain(d, client, api_key, collection_name, model_type_arg, model_name_arg, env) ==
    LET model_type == Param(model_type_arg, openai)
        model_name == Param(model_name_arg, "gpt-3.5-turbo")
        c1 == <<Call("OpenAIEmbeddings", api_key, env.embeddings)>>
    IN
    IF env.embeddings # Ok THEN ChainRaise(d, c1, env.embeddings)
    ELSE
    LET vectorstore == [client |-> client, collection_name |-> collection_name,
                        embeddings |-> [openai_api_key |-> api_key]]
        c2 == Append(c1, Call("Qdrant", vectorstore, env.store))
    IN
    IF env.store # Ok THEN ChainRaise(d, c2, env.store)
    ELSE
    LET llm == SelectLlm(model_type, model_name, api_key)
        c3 == Append(c2, Call(llm.class, llm, env.llm))
    IN
    IF env.llm # Ok THEN ChainRaise(d, c3, env.llm)
    ELSE
    LET chain == [kind |-> "chain", llm |-> llm, retriever |-> vectorstore]
        c4 == Append(c3, Call("ConversationalRetrievalChain.from_llm", chain, env.chain))
    IN
    IF env.chain # Ok THEN ChainRaise(d, c4, env.chain)
    ELSE [db |-> d, calls |-> c4, status |-> <<>>, raised |-> NoExc, result |-> chain]

UpperChar(c) ==
    IF \E i \in 1..Len(LowerLetters) : LowerLetters[i] = c
    THEN UpperLetters[CHOOSE i \in 1..Len(LowerLetters) : LowerLetters[i] = c]
    ELSE c

\* every spelling of the lower-case string s in upper and lower case letters
CaseVariants(s) ==
    {[i \in 1..Len(s) |-> IF i \in up THEN UpperChar(s[i]) ELSE s[i]] :
        up \in SUBSET (1..Len(s))}

OtherModelTypes ==
    { openai, <<"O","p","e","n","A","I">>, <<>>, <<"c","l","a","u","d","e">>,
      Append(anthropic, " "), <<" ">> \o anthropic,
      SubSeq(anthropic, 1, 8), Append(anthropic, "s"),
      <<"A","n","t","h","r","o","p","i","k">> }

FewModelTypes == { anthropic, <<"A","n","t","h","r","o","p","i","c">>, openai }

ModelNames == {"gpt-4", "claude-3"}

ChainEnvs ==
    {[embeddings |-> OpenAIEmbeddingsError, store |-> Ok, llm |-> Ok, chain |-> Ok],
     [embeddings |-> Ok, store |-> QdrantStoreError, llm |-> Ok, chain |-> Ok],
     [embeddings |-> Ok, store |-> Ok, llm |-> ChatModelError, chain |-> Ok],
     [embeddings |-> Ok, store |-> Ok, llm |-> Ok, chain |-> ChainError],
     [embeddings |-> Ok, store |-> Ok, llm |-> Ok, chain |-> Ok]}

\* one call of load_chain with a provider string of the given set, or without one
ChainCall(modelTypes, modelNames, names) ==
    \E mt \in {NotGiven} \cup {Given(t) : t \in modelTypes},
       mn \in {NotGiven} \cup {Given(m) : m \in modelNames},
       name \in names, env \in ChainEnvs :
        \E r \in {load_chain(db, "client", "key", name, mt, mn, env)} :
           /\ db' = r.db
           /\ calls' = r.calls
           /\ status' = r.status
           /\ raised' = r.raised
           /\ result' = r.result
           /\ op' = [name |-> "load_chain", collection_name |-> name,
                     arg |-> [model_type |-> mt, model_name |-> mn]]
           /\ built_points' = <<>>
           /\ UNCHANGED <<nextId, uploaded>>

LoadChain == ChainCall(FewModelTypes, {}, {DefaultCollection})

\* a first call, with any spelling of the provider string
LoadChainFirst ==
    /\ op.name = "none"
    /\ ChainCall(CaseVariants(anthropic) \cup OtherModelTypes, ModelNames, CollectionNames)

-----------------------------------------------------------------------------
(* Points that are in the database before the program first runs *)

PrePoint == [id |-> 0, vector |-> 0, payload |-> [text |-> <<"o","l","d">>]]

InitCollections ==
    {Absent} \cup
    {[exists |-> TRUE, config |-> [size |-> VectorSize, distance |-> Distance_COSINE], points |-> ps] :
        ps \in {{}, {PrePoint}}}

Init ==
    /\ db \in [CollectionNames -> InitCollections]
    /\ nextId = 0
    /\ op = [name |-> "none", collection_name |-> NoArg, arg |-> [none |-> TRUE]]
    /\ calls = <<>>
    /\ status = <<>>
    /\ raised = NoExc
    /\ result = NoResult
    /\ built_points = <<>>
    /\ uploaded = [name \in CollectionNames |-> {}]

\* any sequence of calls of the three operations
Next == LoadChain \/ Connect \/ Load

Spec == Init /\ [][Next]_vars

\* one call of load_data_into_vectorstore, long lists included
NextLoad == LoadFirst

SpecLoad == Init /\ [][NextLoad]_vars

\* one call of load_chain, with every spelling of the provider string
NextChain == LoadChainFirst

SpecChain == Init /\ [][NextChain]_vars

-----------------------------------------------------------------------------
(* What the properties speak about *)

IsConnect == op.name = "connect_to_vectorstore"
IsLoad == op.name = "load_data_into_vectorstore"
IsChain == op.name = "load_chain"

\* the collection the last operation was called for
Target == db[op.collection_name]

CallsOf(fn) == SelectSeq(calls, LAMBDA c : c.fn = fn)

\* the record lists handed to client.upsert, call by call
Batches == [k \in 1..Len(CallsOf("upsert")) |-> CallsOf("upsert")[k].arg.points]

RECURSIVE Concat(_)
Concat(bs) == IF bs = <<>> THEN <<>> ELSE Head(bs) \o Concat(Tail(bs))

HasMsg(kind) == \E i \in 1..Len(status) : status[i].kind = kind

\* a string that is non-empty after trimming whitespace
NonBlank(str) == \E i \in 1..Len(str) : str[i] \notin {" ", "\t", "\n"}

NonBlankAt(texts) == {i \in 1..Len(texts) : NonBlank(texts[i])}

\* the embedding provider was asked once and answered
EmbedAnswered ==
    /\ Len(CallsOf("embed_documents")) = 1
    /\ CallsOf("embed_documents")[1].outcome = Ok

\* the vectors the embedding provider returned
Vectors == CallsOf("embed_documents")[1].ret

EmbedOnePerText == EmbedAnswered /\ Len(Vectors) = Len(op.arg.texts)

AllUpsertsOk == \A i \in 1..Len(calls) : calls[i].fn = "upsert" => calls[i].outcome = Ok

EmbedRaised ==
    \E i \in 1..Len(calls) :
        calls[i].fn \in {"OpenAIEmbeddings", "embed_documents"} /\ calls[i].outcome # Ok

-----------------------------------------------------------------------------
(* C1 *)

\* C1: with one vector returned per input string and every upsert succeeding,
\* the records handed to client.upsert over a whole call of
\* load_data_into_vectorstore are as many as the input strings that are
\* non-empty after trimming, and none of them carries a blank string
C1_UploadedCountIsNonBlankCount ==
    (IsLoad /\ EmbedOnePerText /\ AllUpsertsOk) =>
        /\ Len(Concat(Batches)) = Cardinality(NonBlankAt(op.arg.texts))
        /\ \A k \in 1..Len(Concat(Batches)) : NonBlank(Concat(Batches)[k].payload.text)

\* a call over blank, whitespace-only and non-blank strings that were uploaded
C1_Witness ==
    /\ IsLoad /\ EmbedOnePerText /\ AllUpsertsOk
    /\ Len(Batches) >= 2
    /\ \E i \in 1..Len(op.arg.texts) : ~NonBlank(op.arg.texts[i])
    /\ raised = NoExc

-----------------------------------------------------------------------------
(* C2 *)

\* C2: every client.upsert call carries between 1 and 100 records; the k-th
\* batch is the slice of the record list from record 100(k-1)+1 on, of 100
\* records except possibly for the last one; a call in which no upsert raises
\* makes ceil(n/100) upsert calls for n records (none for n = 0), whose
\* batches put end to end are the record list
C2_Batches ==
    IsLoad =>
        LET n == Len(built_points)
            full == (n + 99) \div 100
        IN /\ \A k \in 1..Len(Batches) :
                 /\ Len(Batches[k]) \in 1..100
                 /\ Batches[k] = SubSeq(built_points, 100 * (k - 1) + 1,
                                        Min(100 * k, n))
                 /\ k < full => Len(Batches[k]) = 100
           /\ Len(Batches) <= full
           /\ AllUpsertsOk => /\ Len(Batches) = full
                              /\ Concat(Batches) = built_points

\* three batches, the last one short
C2_Witness ==
    /\ IsLoad /\ AllUpsertsOk /\ raised = NoExc
    /\ Len(Batches) >= 2
    /\ Len(Batches[Len(Batches)]) < 100

-----------------------------------------------------------------------------
(* C3 *)

\* C3: whenever connect_to_vectorstore returns, the collection it was called
\* for exists and is empty: no record uploaded into it before survives
C3_ConnectLeavesEmpty ==
    (IsConnect /\ raised = NoExc) =>
        /\ Target.exists
        /\ Target.points = {}

\* connect_to_vectorstore returned for a collection that records had been
\* uploaded into
C3_Witness ==
    /\ IsConnect /\ raised = NoExc
    /\ uploaded[op.collection_name] # {}

-----------------------------------------------------------------------------
(* C4 *)

C4_Post ==
    /\ CallsOf("upsert") = <<>>
    /\ HasMsg("error")
    /\ ~HasMsg("success")
    /\ raised = calls[Len(calls)].outcome
    /\ calls[Len(calls)].fn \in {"OpenAIEmbeddings", "embed_documents"}

\* C4: a call of load_data_into_vectorstore whose embedding call raises makes
\* no upsert call and leaves the database as it was, emits an error message
\* and no success message, and the caller gets the exception the embedding
\* call raised
C4_EmbedRaiseUploadsNothing ==
    [][(IsLoad' /\ EmbedRaised') => (C4_Post' /\ db' = db)]_vars

\* embed_documents raised for a list with a non-blank string, the collection
\* being there
C4_Witness ==
    /\ IsLoad /\ Target.exists
    /\ \E i \in 1..Len(calls) : calls[i].fn = "embed_documents" /\ calls[i].outcome # Ok
    /\ NonBlankAt(op.arg.texts) # {}

-----------------------------------------------------------------------------
(* C5 *)

\* the upsert calls that raised, by their position among the upsert calls
FailedUpserts == {k \in 1..Len(CallsOf("upsert")) : CallsOf("upsert")[k].outcome # Ok}

\* C5: when the k-th upsert call raises, the records of the k-1 batches
\* before it are in the collection and none of the later records is, the
\* failed call is the last external call, an error message is emitted and no
\* success message, and the caller gets the exception the upsert raised
C5_PartialUploadStays ==
    IsLoad =>
        \A k \in FailedUpserts :
            /\ k = Len(CallsOf("upsert"))
            /\ calls[Len(calls)] = CallsOf("upsert")[k]
            /\ \A j \in 1..(k - 1) : Target.exists /\ Range(Batches[j]) \subseteq Target.points
            /\ Target.exists =>
                  Target.points \cap Range(built_points) =
                      UNION {Range(Batches[j]) : j \in 1..(k - 1)}
            /\ HasMsg("error")
            /\ ~HasMsg("success")
            /\ raised = CallsOf("upsert")[k].outcome

\* the second upsert raised with a third batch still to come
C5_Witness ==
    /\ IsLoad
    /\ 2 \in FailedUpserts
    /\ Len(built_points) > 200
    /\ Target.exists

-----------------------------------------------------------------------------
(* C6 *)

ANTHROPIC == <<"A","N","T","H","R","O","P","I","C">>

\* equal to "anthropic" when case is ignored
IsAnthropicAnyCase(str) ==
    /\ Len(str) = 9
    /\ \A i \in 1..9 : str[i] \in {anthropic[i], ANTHROPIC[i]}

\* the chat clients load_chain constructed
LlmCalls == SelectSeq(calls, LAMBDA c : c.fn \in {"ChatAnthropic", "ChatOpenAI"})

C6_Expected(llm) ==
    /\ llm.class = IF op.arg.model_type.given
                      /\ IsAnthropicAnyCase(op.arg.model_type.value)
                   THEN "ChatAnthropic" ELSE "ChatOpenAI"
    /\ llm.temperature = 0
    /\ llm.model = IF op.arg.model_name.given THEN op.arg.model_name.value
                   ELSE "gpt-3.5-turbo"

\* C6: load_chain builds an Anthropic-style chat client when the provider
\* string is "anthropic" in any case and an OpenAI-style one for any other
\* string and when none is given, with temperature 0.0 and the model name of
\* the caller; the chain it returns holds that client
C6_ProviderSelection ==
    IsChain =>
        /\ \A i \in 1..Len(LlmCalls) : C6_Expected(LlmCalls[i].arg)
        /\ raised = NoExc => /\ Len(LlmCalls) = 1
                             /\ result.kind = "chain"
                             /\ result.llm = LlmCalls[1].arg

\* a chain returned for a spelling of "anthropic" in mixed case
C6_Witness ==
    /\ IsChain /\ raised = NoExc
    /\ op.arg.model_type.given
    /\ op.arg.model_type.value \notin {anthropic, ANTHROPIC}
    /\ result.llm.class = "ChatAnthropic"

\* a chain returned when no provider string is given
C6_WitnessAbsent ==
    /\ IsChain /\ raised = NoExc
    /\ ~op.arg.model_type.given
    /\ result.llm.class = "ChatOpenAI"

-----------------------------------------------------------------------------
(* C7 *)

FailedCalls == {i \in 1..Len(calls) : calls[i].outcome # Ok}

\* C7 as claimed: in each of the three operations, whenever an external call
\* raises, an error message is emitted and the caller gets that exception
C7_EveryOperationReports ==
    \A i \in FailedCalls : HasMsg("error") /\ raised = calls[i].outcome

\* C7 as amended: connect_to_vectorstore and load_data_into_vectorstore end
\* at the first external call that raises, other than delete_collection, with
\* an error message as their last message and that exception for the caller;
\* an exception of delete_collection is swallowed without a message and
\* create_collection is called next; load_chain ends at the first external
\* call that raises with that exception for the caller and no message
C7_ReportAndReraise ==
    /\ (IsConnect \/ IsLoad) =>
          \A i \in FailedCalls :
              IF calls[i].fn = "delete_collection"
              THEN /\ i < Len(calls)
                   /\ calls[i + 1].fn = "create_collection"
                   /\ \A j \in 1..Len(status) :
                         status[j].kind = "error" => status[j].text[2] # calls[i].outcome
              ELSE /\ i = Len(calls)
                   /\ status # <<>>
                   /\ status[Len(status)].kind = "error"
                   /\ status[Len(status)].text[2] = calls[i].outcome
                   /\ raised = calls[i].outcome
    /\ IsChain =>
          \A i \in FailedCalls :
              /\ i = Len(calls)
              /\ status = <<>>
              /\ raised = calls[i].outcome
    /\ (FailedCalls = {} /\ op.name # "none") => raised = NoExc /\ ~HasMsg("error")

\* create_collection raised after a successful deletion
C7_Witness ==
    /\ IsConnect
    /\ Len(calls) = 4
    /\ calls[3].outcome = Ok
    /\ calls[4].outcome = CreateError

\* an external call of load_chain raised
C7_WitnessChain == IsChain /\ FailedCalls # {}

-----------------------------------------------------------------------------
(* C8 *)

\* C8 as claimed: a deletion that fails for another reason than "not found"
\* is reported and re-raised, and create_collection is not attempted
C8_OnlyNotFoundSuppressed ==
    IsConnect =>
        \A i \in FailedCalls :
            (calls[i].fn = "delete_collection" /\ calls[i].outcome # DeleteNotFound) =>
                /\ HasMsg("error")
                /\ raised = calls[i].outcome
                /\ CallsOf("create_collection") = <<>>

-----------------------------------------------------------------------------
(* C9 *)

\* C9 as claimed: the strings submitted to the embedding provider are exactly
\* the non-blank input strings, and as many vectors are requested as records
\* are built
C9_OnlyNonBlankEmbedded ==
    (IsLoad /\ EmbedAnswered) =>
        /\ Range(CallsOf("embed_documents")[1].arg) =
              {op.arg.texts[i] : i \in NonBlankAt(op.arg.texts)}
        /\ EmbedOnePerText =>
              Len(CallsOf("embed_documents")[1].arg) = Len(built_points)

\* C9 as amended: the whole input list, blank strings included, is submitted
\* to the embedding provider in one call, so that as many vectors are
\* requested as there are input strings; the blank strings are dropped when
\* the records are built, and with one vector returned per input string the
\* records built are as many as the non-blank input strings
C9_WholeListEmbedded ==
    IsLoad =>
        /\ Len(CallsOf("embed_documents")) <= 1
        /\ \A i \in 1..Len(CallsOf("embed_documents")) :
              CallsOf("embed_documents")[i].arg = op.arg.texts
        /\ EmbedOnePerText =>
              /\ Len(built_points) = Cardinality(NonBlankAt(op.arg.texts))
              /\ Len(built_points) <= Len(Vectors)

\* a list with a blank and a non-blank string was embedded and uploaded
C9_Witness ==
    /\ IsLoad /\ EmbedOnePerText /\ raised = NoExc
    /\ NonBlankAt(op.arg.texts) # {}
    /\ \E i \in 1..Len(op.arg.texts) : ~NonBlank(op.arg.texts[i])
    /\ Len(Batches) >= 1

-----------------------------------------------------------------------------
(* C10 *)

\* the position in the provider's answer of the vector a record carries (a
\* vector is named by its position)
Position(point) == point.vector

\* C10: every record built pairs an input string with the vector returned at
\* that string's own position; the records follow the order of the input
\* strings, one for every non-blank string that got a vector, and are handed
\* to upsert in that order; their identifiers are pairwise distinct; strings
\* beyond the vectors returned are dropped without an error
C10_PairingOrderIds ==
    (IsLoad /\ EmbedAnswered) =>
        LET texts == op.arg.texts
            m == Min(Len(texts), Len(Vectors))
            n == Len(built_points)
        IN /\ \A k \in 1..n :
                 /\ built_points[k].vector \in 1..m
                 /\ built_points[k].payload.text = texts[Position(built_points[k])]
           /\ \A k \in 1..(n - 1) :
                 Position(built_points[k]) < Position(built_points[k + 1])
           /\ {Position(built_points[k]) : k \in 1..n} = {i \in NonBlankAt(texts) : i <= m}
           /\ Cardinality({built_points[k].id : k \in 1..n}) = n
           /\ Concat(Batches) = SubSeq(built_points, 1, Len(Concat(Batches)))
           /\ (Len(Vectors) < Len(texts) /\ AllUpsertsOk) => raised = NoExc

\* a blank string precedes a non-blank one, and the last string, non-blank,
\* got no vector
C10_Witness ==
    /\ IsLoad /\ EmbedAnswered /\ raised = NoExc
    /\ Len(Vectors) < Len(op.arg.texts)
    /\ NonBlank(op.arg.texts[Len(op.arg.texts)])
    /\ Len(Batches) >= 1
    /\ \E i \in 1..Len(Vectors) :
          /\ ~NonBlank(op.arg.texts[i])
          /\ \E j \in (i + 1)..Len(Vectors) : NonBlank(op.arg.texts[j])

====
